---------------------------- MODULE Spec2Model ----------------------------
(***************************************************************************)
(* A model of PupilTracker (src/PupilTracker.cpp, src/PupilTracker.h):     *)
(* the canny-edge pupil tracker's findPupil pipeline, its contour          *)
(* relaxation loop, its histogram spike scan and its region masking.       *)
(*                                                                         *)
(* Four specifications share the variables:                                *)
(*   Spec       the tracker object: findPupil as one action per call,      *)
(*              setDisplay, setMaskImage;                                  *)
(*   RelaxSpec  one findPupil call with the relaxation loop taken one      *)
(*              pass at a time (FairRelaxSpec adds the fairness of a       *)
(*              running thread);                                           *)
(*   HistSpec   the histogram and spike scan on a working image given by   *)
(*              its pixel counts per grey level;                           *)
(*   MaskSpec   the preprocessor, the masks and the edge pruning on a      *)
(*              one-row image, pixel by pixel.                             *)
(*                                                                         *)
(* OpenCV is a library outside the repository. cv::Canny and               *)
(* cv::findContours are not computed: their results are inputs the         *)
(* environment chooses (an edge map, a contour list). A contour is         *)
(* represented by its number of points, and cv::fitEllipse by the point    *)
(* set it is given.                                                        *)
(***************************************************************************)
EXTENDS Integers, Sequences, FiniteSets, TLC

(***************************************************************************)
(* Bounds of the model.                                                    *)
(***************************************************************************)
\* longest contour list of a call in RelaxSpec
MaxRelaxContours == 2
\* the debug image list is not grown beyond this length
MaxImages == 10
\* the number of pixels of the one-row images of MaskSpec
MaskWidth == 5

(***************************************************************************)
(* Constants of the program.                                               *)
(***************************************************************************)
rangeMin == 0
rangeMax == 255
minSpikeSize == 40
\* cv::fitEllipse raises an error on fewer points than this
FitEllipseMinPoints == 5

\* contour lengths (numbers of points) the environment draws from
ContourLens == {1, 4, 5, 79, 80, 81}
\* the contour lists of Spec's frames
TrackContours == {<<>>, <<4>>, <<80>>, <<4, 80>>}
\* the input images of Spec, by identity
ImageIds == {1, 2}

VARIABLES
    \* members of PupilTracker
    m_ellipseRectangle, m_blur, m_canny_thresh, m_canny_ratio, m_canny_aperture,
    m_bin_thresh, m_pupilIntensityOffset, m_glintIntensityOffset,
    m_min_contour_size, m_confidence, m_display, maskImage, images,
    \* position and locals of the findPupil call
    pc, eyeImage, imageGray, lowestSpike, highestSpike, numSpikes,
    contours, contourMergeable, retryContourMerge, relaxContourMerge,
    success, contoursMerged, result,
    \* pixel-level locals (MaskSpec)
    imageIn, darkMask, glintMask, edges, edgesPruned,
    \* number of passes of the relaxation loop made by the call
    passes,
    \* one earlier call, remembered: its inputs and what it produced
    ref

settings == <<m_blur, m_canny_thresh, m_canny_ratio, m_canny_aperture,
              m_pupilIntensityOffset, m_glintIntensityOffset,
              m_min_contour_size, m_confidence>>
members == <<m_ellipseRectangle, settings, m_bin_thresh, m_display, maskImage,
             images>>
estimator == <<imageGray, lowestSpike, highestSpike, numSpikes>>
selector == <<contours, contourMergeable, retryContourMerge,
              relaxContourMerge, success, contoursMerged, passes>>
pixels == <<imageIn, darkMask, glintMask, edges, edgesPruned>>
vars == <<members, pc, eyeImage, estimator, selector, result, pixels, ref>>

-----------------------------------------------------------------------------
(***************************************************************************)
(* Sequences.                                                              *)
(***************************************************************************)
SeqsUpTo(S, n) == UNION {[1..k -> S] : k \in 0..n}

RECURSIVE SumSeq(_)
SumSeq(s) == IF s = <<>> THEN 0 ELSE Head(s) + SumSeq(Tail(s))

-----------------------------------------------------------------------------
(***************************************************************************)
(* The contour selector: relaxation loop, merge, ellipse fit.              *)
(***************************************************************************)

\* contours.at(i).size() < m_min_contour_size - relaxContourMerge: the left
\* side is a size_t, so the int on the right is converted to size_t. A
\* negative int becomes a value of at least 2^63, above every contour size.
SizeLessThanInt(size, n) == IF n < 0 THEN TRUE ELSE size < n

TooSmallStrict(size, minSize, relax) == SizeLessThanInt(size, minSize - relax + 1)
\* the test of line 193
TooSmall(size, minSize, relax) == SizeLessThanInt(size, minSize - relax)

\* std::vector<bool> contourMergeable(contours.size()): all false
NoneMergeable(cs) == [i \in 1..Len(cs) |-> FALSE]

PassFlagsFirstOnly(cs, flags, minSize, relax) ==
    [i \in 1..Len(cs) |->
        /\ ~TooSmall(cs[i], minSize, relax)
        /\ \A j \in 1..(i - 1) : TooSmall(cs[j], minSize, relax)]
\* the for loop of lines 190-204: every flag is assigned in a pass
PassFlags(cs, flags, minSize, relax) ==
    [i \in 1..Len(cs) |-> ~TooSmall(cs[i], minSize, relax)]

AnyFlag(flags) == \E i \in 1..Len(flags) : flags[i]

\* retryContourMerge after a pass: cleared when a contour was accepted
RetryAfterStop(retry, flags) == FALSE
RetryAfter(retry, flags) == IF AnyFlag(flags) THEN FALSE ELSE retry

\* the condition of the while loop, line 188
LoopCond(retry, cs) == retry /\ Len(cs) > 0

\* relaxContourMerge += 2, line 205
RelaxStep == 2

\* one pass of the while loop, lines 190-205, on the loop's variables
RelaxPassOf(cs, st, minSize) ==
    LET f == PassFlags(cs, st.contourMergeable, minSize, st.relaxContourMerge)
    IN  [contourMergeable |-> f,
         retryContourMerge |-> RetryAfter(st.retryContourMerge, f),
         relaxContourMerge |-> st.relaxContourMerge + RelaxStep,
         passes |-> st.passes + 1]

LoopStates == [contourMergeable : Seq(BOOLEAN), retryContourMerge : BOOLEAN,
               relaxContourMerge : Int, passes : Nat]

\* the whole while loop of lines 188-206, from the loop variables st
RelaxLoop(cs, st, minSize) ==
    LET loop[s \in LoopStates] ==
            IF LoopCond(s.retryContourMerge, cs)
            THEN loop[RelaxPassOf(cs, s, minSize)]
            ELSE s
    IN  loop[st]

\* lines 185-187: the loop variables before the loop
LoopStart(cs, relax) ==
    [contourMergeable |-> NoneMergeable(cs), retryContourMerge |-> TRUE,
     relaxContourMerge |-> relax, passes |-> 0]

\* lines 209-217: the merged contours, in order
RECURSIVE MergeContours(_, _)
MergeContours(cs, flags) ==
    IF cs = <<>> THEN <<>>
    ELSE (IF Head(flags) THEN <<Head(cs)>> ELSE <<>>)
         \o MergeContours(Tail(cs), Tail(flags))

\* success = true is assigned in the merge loop, for a mergeable contour
SuccessOf(flags) == AnyFlag(flags)

\* the number of points of contoursMerged
NumPoints(merged) == SumSeq(merged)

\* cv::RotatedRect(), the value the constructor leaves in m_ellipseRectangle
DefaultRect == [points |-> <<>>]
\* the ellipse cv::fitEllipse returns for a point set
FittedRect(merged) == [points |-> merged]

\* cv::fitEllipse raises cv::Exception on fewer than 5 points
FitDefined(merged) == NumPoints(merged) >= FitEllipseMinPoints

\* lines 240-249: what the call ends with
ReturnOf(ok, merged) ==
    IF ok THEN (IF FitDefined(merged) THEN "true" ELSE "exception")
    ELSE "false"

EllipseAccumulated(old, ok, merged) ==
    IF ok /\ FitDefined(old.points \o merged)
    THEN FittedRect(old.points \o merged) ELSE old
EllipseClearedOnFailure(old, ok, merged) ==
    IF ok /\ FitDefined(merged) THEN FittedRect(merged)
    ELSE IF ok THEN old ELSE DefaultRect
\* m_ellipseRectangle after the call: assigned at line 242 only
EllipseAfter(old, ok, merged) ==
    IF ok /\ FitDefined(merged) THEN FittedRect(merged) ELSE old

-----------------------------------------------------------------------------
(***************************************************************************)
(* The threshold estimator: histogram and spike scan.                      *)
(* A working image is given by its pixel counts: a function from the grey  *)
(* levels that occur in it to the number of pixels of that level.          *)
(***************************************************************************)
histSize == 256

\* cv::calcHist with uniform ranges {0, 255} and 256 buckets: a value v falls
\* in bucket floor(v * 256 / (255 - 0)), and outside every bucket when that
\* index is not below 256 (the upper end of a range is exclusive)
CalcHistBucket(v) ==
    LET idx == (v * histSize) \div (rangeMax - rangeMin)
    IN  IF idx < histSize THEN idx ELSE -1

\* hist, a 256 x 1 matrix of 32-bit floats: the count of every bucket
CalcHist(img) ==
    [i \in 0..(histSize - 1) |->
        LET vs == {v \in DOMAIN img : CalcHistBucket(v) = i}
        IN  IF vs = {} THEN 0 ELSE img[CHOOSE v \in vs : TRUE]]

RECURSIVE Log2(_)
Log2(n) == IF n < 2 THEN 0 ELSE 1 + Log2(n \div 2)

RECURSIVE Pow2(_)
Pow2(e) == IF e = 0 THEN 1 ELSE 2 * Pow2(e - 1)

\* 2^23, the weight of the exponent field of a float
ExponentWeight == Pow2(23)
\* the weights of the four bytes of a 32-bit word
ByteWeight == [k \in 0..3 |-> Pow2(8 * k)]

\* the IEEE-754 single precision bit pattern of a count 0 <= n < 2^24
FloatBits(n) ==
    IF n = 0 THEN 0
    ELSE LET e == Log2(n)
         IN  (127 + e) * ExponentWeight + (n - Pow2(e)) * Pow2(23 - e)

\* byte k (0 the lowest) of the float, as stored on a little-endian machine
FloatByte(n, k) == (FloatBits(n) \div ByteWeight[k]) % 256

\* hist.at<uchar>(0, i), line 100: the element type named is uchar and the
\* matrix is 256 rows of one float, so this is byte i of the matrix data,
\* byte i % 4 of the float of bucket i / 4 (the bounds assertion of at() is
\* compiled out of release builds)
HistAtUchar(hist, i) == FloatByte(hist[i \div 4], i % 4)

\* the test of line 100 for every i = 0 .. histSize - 1
SpikesSeen(hist) ==
    {i \in 0..(histSize - 1) : HistAtUchar(hist, i) >= minSpikeSize}

MinOf(S) == CHOOSE x \in S : \A y \in S : x <= y
MaxOf(S) == CHOOSE x \in S : \A y \in S : x >= y

\* lines 94-112, the result of the scan over the spikes it sees: lowestSpike
\* starts at rangeMax and takes every smaller spike index, highestSpike
\* starts at rangeMin and takes every larger one, numSpikes counts the spikes
ScanResult(seen) ==
    [lowestSpike |-> MinOf(seen \cup {rangeMax}),
     highestSpike |-> MaxOf(seen \cup {rangeMin}),
     numSpikes |-> Cardinality(seen)]

\* lines 94-112 on the histogram
SpikeScan(hist) ==
    CHOOSE s \in {ScanResult(seen) : seen \in {SpikesSeen(hist)}} : TRUE

\* lines 113-118: the default values when fewer than 2 spikes were counted
Fallback(s) ==
    IF s.numSpikes < 2
    THEN [lowestSpike |-> 0, highestSpike |-> 255, numSpikes |-> s.numSpikes]
    ELSE s

\* lines 84-118 on a working image
EstimateSpikes(img) ==
    Fallback(SpikeScan(CalcHist(img)))

\* the buckets of the histogram whose count is at least minSpikeSize
SpikeBuckets(img) ==
    {i \in 0..(histSize - 1) : CalcHist(img)[i] >= minSpikeSize}

-----------------------------------------------------------------------------
(***************************************************************************)
(* The debug image list.                                                   *)
(***************************************************************************)
\* if(m_display) { images.push_back(image); }
PushIfDisplay(display, list, image) ==
    IF display THEN Append(list, image) ELSE list

DebugFrontAll(display, list) ==
    PushIfDisplay(display,
      PushIfDisplay(display,
        PushIfDisplay(display,
          PushIfDisplay(display,
            PushIfDisplay(display,
              PushIfDisplay(display, list, "imageGray"),
              "darkMask"),
            "glintMask"),
          "imageBlurred"),
        "edges"),
      "edgesPruned")
\* the display blocks of lines 77-178: the push_back of imageBlurred (line
\* 157) and of edgesPruned (line 176) are commented out
DebugFront(display, list) ==
    PushIfDisplay(display,
      PushIfDisplay(display,
        PushIfDisplay(display,
          PushIfDisplay(display, list, "imageGray"),
          "darkMask"),
        "glintMask"),
      "edges")

\* the display block of lines 220-237: the push_back of edgesContoured (line
\* 233) is commented out
DebugBack(display, list) == PushIfDisplay(display, list, "filteredContours")

\* what one call with the display on adds to images
DebugImages == DebugBack(TRUE, DebugFront(TRUE, <<>>))

-----------------------------------------------------------------------------
(***************************************************************************)
(* The tracker object.                                                     *)
(***************************************************************************)
\* maskImage as constructed: an empty cv::Mat
NoMask == <<>>
\* the region mask a caller of Spec sets, as a row of one pixel
MaskIds == {<<255>>}

\* a working image with no pixel: the value of imageGray outside a call
NoImage == [v \in {} |-> 0]

\* the working images of Spec's frames, by their pixel counts: a uniform image
\* (normalized to grey level 0) and one with two pixels of grey level 0
TrackGrays == {[v \in {0} |-> 1000],
               [v \in {0, 128, 255} |-> IF v = 0 THEN 2 ELSE 1000]}

\* the estimator on the working images of the frames, evaluated once
TrackSpikes == [g \in TrackGrays |-> EstimateSpikes(g)]

\* what the front end (lines 42-182) extracts from an input image under the
\* current mask: the working image and the contours of the pruned edge map
TrackFrames == [gray : TrackGrays, contours : TrackContours]
RelaxFrames == [gray : TrackGrays,
                contours : SeqsUpTo(ContourLens, MaxRelaxContours)]

NoRef == [set |-> FALSE, imageIn |-> <<0, NoMask>>,
          frame |-> [gray |-> NoImage, contours |-> <<>>],
          lowestSpike |-> 0, highestSpike |-> 0,
          contourMergeable |-> <<>>, success |-> FALSE, result |-> "none",
          ellipse |-> DefaultRect, nimages |-> 0]

\* PupilTracker::PupilTracker()
Constructed ==
    /\ m_blur = 5
    /\ m_canny_thresh = 159
    /\ m_canny_ratio = 2
    /\ m_canny_aperture = 5
    /\ m_bin_thresh = 0
    /\ m_pupilIntensityOffset = 11
    /\ m_glintIntensityOffset = 5
    /\ m_min_contour_size = 80
    /\ m_confidence = 0
    /\ m_display = FALSE
    /\ m_ellipseRectangle = DefaultRect
    /\ maskImage = NoMask
    /\ images = <<>>

\* no findPupil call has been made
NoCall ==
    /\ pc = "idle"
    /\ eyeImage = 0
    /\ imageGray = NoImage
    /\ lowestSpike = 0 /\ highestSpike = 0 /\ numSpikes = 0
    /\ contours = <<>> /\ contourMergeable = <<>>
    /\ retryContourMerge = FALSE /\ relaxContourMerge = 0
    /\ success = FALSE /\ contoursMerged = <<>> /\ result = "none"
    /\ imageIn = <<0, NoMask>>
    /\ darkMask = <<>> /\ glintMask = <<>> /\ edges = <<>> /\ edgesPruned = <<>>
    /\ passes = 0
    /\ ref = NoRef

Init == Constructed /\ NoCall

\* int relaxContourMerge = 0, line 187
StartRelax(previous) == 0

BinThreshHighest(s) == s.highestSpike
\* m_bin_thresh = lowestSpike, line 119
BinThresh(s) == s.lowestSpike

\* lines 42-187 of findPupil: the front end up to the start of the loop
FrontEnd(img, frame) ==
    LET s == TrackSpikes[frame.gray]
    IN  /\ eyeImage' = img
        /\ imageIn' = <<img, maskImage>>
        /\ imageGray' = frame.gray
        /\ lowestSpike' = s.lowestSpike
        /\ highestSpike' = s.highestSpike
        /\ numSpikes' = s.numSpikes
        /\ m_bin_thresh' = BinThresh(s)
        /\ contours' = frame.contours
        /\ UNCHANGED <<darkMask, glintMask, edges, edgesPruned>>

\* lines 208-250 of findPupil: merge, overlay, fit and return
BackEnd(cs, flags, imgs) ==
    LET merged == MergeContours(cs, flags)
        ok == SuccessOf(flags)
    IN  /\ contoursMerged' = merged
        /\ success' = ok
        /\ images' = DebugBack(m_display, imgs)
        /\ m_ellipseRectangle' = EllipseAfter(m_ellipseRectangle, ok, merged)
        /\ result' = ReturnOf(ok, merged)
        /\ pc' = "returned"

\* the caller is between calls
Idle == pc \in {"idle", "returned"}

\* the remembered call: the environment gives the same input the same frame
Consistent(img, frame) ==
    (ref.set /\ ref.imageIn = <<img, maskImage>>) => frame = ref.frame

Remember(img, frame, flags, ok, res, ellipse) ==
    [set |-> TRUE, imageIn |-> <<img, maskImage>>, frame |-> frame,
     lowestSpike |-> TrackSpikes[frame.gray].lowestSpike,
     highestSpike |-> TrackSpikes[frame.gray].highestSpike,
     contourMergeable |-> flags, success |-> ok, result |-> res,
     ellipse |-> ellipse, nimages |-> Len(images')]

\* bool PupilTracker::findPupil(const cv::Mat& eyeImage), a whole call
FindPupil(img, frame) ==
    /\ Idle
    /\ m_display => Len(images) + Len(DebugImages) <= MaxImages
    /\ Consistent(img, frame)
    /\ FrontEnd(img, frame)
    /\ \E loop \in {RelaxLoop(frame.contours,
                              LoopStart(frame.contours,
                                        StartRelax(relaxContourMerge)),
                              m_min_contour_size)} :
           /\ contourMergeable' = loop.contourMergeable
           /\ retryContourMerge' = loop.retryContourMerge
           /\ relaxContourMerge' = loop.relaxContourMerge
           /\ passes' = loop.passes
           /\ BackEnd(frame.contours, loop.contourMergeable,
                      DebugFront(m_display, images))
    /\ \/ UNCHANGED ref
       \/ /\ ~ref.set
          /\ ref' = Remember(img, frame, contourMergeable', success', result',
                             m_ellipseRectangle')
    /\ UNCHANGED <<settings, m_display, maskImage>>

\* void PupilTracker::setDisplay(bool display)
SetDisplay(display) ==
    /\ Idle
    /\ m_display' = display
    /\ UNCHANGED <<m_ellipseRectangle, settings, m_bin_thresh, maskImage,
                   images, pc, eyeImage, estimator, selector, result, pixels,
                   ref>>

\* void PupilTracker::setMaskImage(const cv::Mat& maskIn)
SetMaskImage(maskIn) ==
    /\ Idle
    /\ maskImage' = maskIn
    /\ UNCHANGED <<m_ellipseRectangle, settings, m_bin_thresh, m_display,
                   images, pc, eyeImage, estimator, selector, result, pixels,
                   ref>>

Next ==
    \/ \E img \in ImageIds, frame \in TrackFrames : FindPupil(img, frame)
    \/ \E display \in BOOLEAN : SetDisplay(display)
    \/ \E maskIn \in MaskIds : SetMaskImage(maskIn)

Spec == Init /\ [][Next]_vars

\* cv::RotatedRect PupilTracker::getEllipseRectangle()
getEllipseRectangle == m_ellipseRectangle
\* cv::Point2f PupilTracker::getEllipseCentroid(): the center of the rectangle
getEllipseCentroid == [centerOf |-> m_ellipseRectangle.points]

\* a step of Spec that is a findPupil call
FindPupilStep ==
    \E img \in ImageIds, frame \in TrackFrames : FindPupil(img, frame)

-----------------------------------------------------------------------------
(***************************************************************************)
(* One findPupil call, the relaxation loop one pass at a time.             *)
(***************************************************************************)
\* lines 42-187: the call up to the first test of the while condition
RelaxBegin(img, frame) ==
    /\ pc = "idle"
    /\ FrontEnd(img, frame)
    /\ images' = DebugFront(m_display, images)
    /\ contourMergeable' = LoopStart(frame.contours, 0).contourMergeable
    /\ retryContourMerge' = LoopStart(frame.contours, 0).retryContourMerge
    /\ relaxContourMerge' =
           LoopStart(frame.contours, StartRelax(relaxContourMerge)).relaxContourMerge
    /\ passes' = 0
    /\ success' = FALSE
    /\ contoursMerged' = <<>>
    /\ result' = "none"
    /\ pc' = "loop"
    /\ UNCHANGED <<m_ellipseRectangle, settings, m_display, maskImage, ref>>

\* lines 188-206: one pass of the while loop
RelaxPass ==
    /\ pc = "loop"
    /\ LoopCond(retryContourMerge, contours)
    /\ \E st \in {RelaxPassOf(contours,
                              [contourMergeable |-> contourMergeable,
                               retryContourMerge |-> retryContourMerge,
                               relaxContourMerge |-> relaxContourMerge,
                               passes |-> passes],
                              m_min_contour_size)} :
           /\ contourMergeable' = st.contourMergeable
           /\ retryContourMerge' = st.retryContourMerge
           /\ relaxContourMerge' = st.relaxContourMerge
           /\ passes' = st.passes
    /\ UNCHANGED <<members, pc, eyeImage, estimator, contours, success,
                   contoursMerged, result, pixels, ref>>

\* lines 208-250: the loop has ended; merge, overlay, fit and return
RelaxFinish ==
    /\ pc = "loop"
    /\ ~LoopCond(retryContourMerge, contours)
    /\ BackEnd(contours, contourMergeable, images)
    /\ UNCHANGED <<settings, m_bin_thresh, m_display, maskImage, eyeImage,
                   estimator, contours, contourMergeable, retryContourMerge,
                   relaxContourMerge, passes, pixels, ref>>

RelaxNext ==
    \/ \E img \in ImageIds, frame \in RelaxFrames : RelaxBegin(img, frame)
    \/ RelaxPass
    \/ RelaxFinish

RelaxSpec == Init /\ [][RelaxNext]_vars

\* the calling thread runs: a call that can take a step takes it
FairRelaxSpec == RelaxSpec /\ WF_vars(RelaxPass) /\ WF_vars(RelaxFinish)

-----------------------------------------------------------------------------
(***************************************************************************)
(* The threshold estimator on working images given by their pixel counts.  *)
(***************************************************************************)
\* the grey levels and the pixel counts the working images are drawn from
HistLevels == {0, 1, 63, 64, 255}
HistCounts == {0, 1, 2, 40}

\* cv::normalize(..., 0, 255, NORM_MINMAX) leaves an image whose darkest pixel
\* is 0 and whose brightest is 255, or, from a uniform image, all pixels 0
Normalized(img) ==
    /\ img[0] > 0
    /\ \/ img[255] > 0
       \/ \A v \in DOMAIN img : v # 0 => img[v] = 0

HistImages == {img \in [HistLevels -> HistCounts] : Normalized(img)}

\* lines 84-119 on one working image
Estimate(img) ==
    /\ pc = "idle"
    /\ \E s \in {EstimateSpikes(img)} :
           /\ imageGray' = img
           /\ lowestSpike' = s.lowestSpike
           /\ highestSpike' = s.highestSpike
           /\ numSpikes' = s.numSpikes
           /\ m_bin_thresh' = BinThresh(s)
    /\ pc' = "estimated"
    /\ UNCHANGED <<m_ellipseRectangle, settings, m_display, maskImage, images,
                   eyeImage, selector, result, pixels, ref>>

HistNext == \E img \in HistImages : Estimate(img)

HistSpec == Init /\ [][HistNext]_vars

\* the upper bounds given to cv::inRange, lines 123 and 136
DarkCutoff == lowestSpike + m_pupilIntensityOffset
GlintCutoff == highestSpike - m_glintIntensityOffset

\* C8: for a working image whose histogram has fewer than 2 buckets of at
\* least minSpikeSize pixels, the estimator yields lowestSpike = 0 and
\* highestSpike = 255, so that the cut-offs are 0 + m_pupilIntensityOffset
\* and 255 - m_glintIntensityOffset.
C8_FallbackWhenFewSpikes ==
    (pc = "estimated" /\ Cardinality(SpikeBuckets(imageGray)) < 2) =>
        /\ lowestSpike = 0
        /\ highestSpike = 255
        /\ DarkCutoff = 0 + m_pupilIntensityOffset
        /\ GlintCutoff = 255 - m_glintIntensityOffset

\* the sum of a function's values over the set S of its arguments
RECURSIVE SumOver(_, _)
SumOver(f, S) ==
    IF S = {} THEN 0
    ELSE LET x == CHOOSE y \in S : TRUE
         IN  f[x] + SumOver(f, S \ {x})

\* the number of pixels of a working image
TotalPixels(img) == SumOver(img, DOMAIN img)

\* the sum of the buckets of a histogram (the empty buckets add nothing)
HistSum(hist) == SumOver(hist, {i \in DOMAIN hist : hist[i] > 0})

\* C11: for a working image whose histogram has at least 2 buckets of at
\* least minSpikeSize pixels, lowestSpike is the smallest and highestSpike
\* the largest index among exactly those buckets, so lowestSpike is below
\* highestSpike.
C11_SpikesAreExtremeBuckets ==
    (pc = "estimated" /\ Cardinality(SpikeBuckets(imageGray)) >= 2) =>
        /\ lowestSpike = MinOf(SpikeBuckets(imageGray))
        /\ highestSpike = MaxOf(SpikeBuckets(imageGray))
        /\ lowestSpike < highestSpike

\* C12: the histogram built for the working image sums to the number of
\* pixels of the working image, pixels of intensity 255 included.
C12_HistogramSumsToPixels ==
    pc = "estimated" =>
        HistSum(CalcHist(imageGray)) = TotalPixels(imageGray)

-----------------------------------------------------------------------------
(***************************************************************************)
(* The preprocessor, the masks and the edge pruning, pixel by pixel, on an *)
(* image of one row. A pixel value v of the input stands for the BGR pixel *)
(* (v, v, v); a row is a sequence of pixel values. Here imageGray is the   *)
(* row of the working image.                                               *)
(***************************************************************************)
\* the pixel values of the input images
RawValues == {0, 100, 255}
Positions == 1..MaskWidth
EyeRows == [Positions -> RawValues]
\* input images of two pixels, for a tracker without a region mask
ShortRows == [1..2 -> RawValues]
\* the region masks: 255 on a run of pixels (the region of interest, which
\* may be empty or the whole row), 0 elsewhere
MaskRows == {[p \in Positions |-> IF a <= p /\ p <= b THEN 255 ELSE 0] :
                a \in Positions, b \in 0..MaskWidth}

MaskEmpty(mask) == mask = NoMask

\* cv::bitwise_not on 8-bit pixels
BitwiseNot(row) == [p \in DOMAIN row |-> 255 - row[p]]

\* src.copyTo(dst, mask) into a fresh dst: zero where the mask is zero
CopyTo(src, mask) == [p \in DOMAIN src |-> IF mask[p] # 0 THEN src[p] ELSE 0]

ApplyMaskBlack(eye, mask) ==
    IF MaskEmpty(mask) THEN eye ELSE CopyTo(eye, mask)
\* lines 47-69: invert, copy through the mask, invert back
ApplyMask(eye, mask) ==
    IF MaskEmpty(mask) THEN eye
    ELSE BitwiseNot(CopyTo(BitwiseNot(eye), mask))

\* cv::cvtColor(..., COLOR_BGR2GRAY) on 8-bit pixels, line 75
BGR2GRAY(b, g, r) == (b * 1868 + g * 9617 + r * 4899 + 8192) \div 16384
CvtColor(row) == [p \in DOMAIN row |-> BGR2GRAY(row[p], row[p], row[p])]

RowValues(row) == {row[p] : p \in DOMAIN row}

\* a / b rounded to the nearest integer, halves to the even one (cvRound)
RoundHalfEven(a, b) ==
    LET q == a \div b
        r == a % b
    IN  IF 2 * r < b THEN q
        ELSE IF 2 * r > b THEN q + 1
        ELSE IF q % 2 = 0 THEN q ELSE q + 1

\* cv::normalize(src, dst, 0, 255, NORM_MINMAX, CV_8UC1), line 76: the scale
\* is 255 / (max - min), and 0 when max = min
Normalize(row) ==
    LET smin == MinOf(RowValues(row))
        smax == MaxOf(RowValues(row))
    IN  [p \in DOMAIN row |->
            IF smax = smin THEN rangeMin
            ELSE RoundHalfEven((row[p] - smin) * (rangeMax - rangeMin),
                               smax - smin)]

Uniform(row) == Cardinality(RowValues(row)) = 1

\* the pixel counts of a row, per grey level
GrayCounts(row) ==
    [v \in RowValues(row) |-> Cardinality({p \in DOMAIN row : row[p] = v})]

\* cv::inRange(src, lo, hi, dst)
InRange(row, lo, hi) ==
    [p \in DOMAIN row |-> IF lo <= row[p] /\ row[p] <= hi THEN 255 ELSE 0]

\* getStructuringElement(MORPH_ELLIPSE, Size(7, 7)), line 124: the middle row
\* of the kernel is full, so on one row it reaches morphRadius to each side
morphSize == 7
morphRadius == (morphSize - 1) \div 2
Window(row, p) == {q \in DOMAIN row : q - p <= morphRadius /\ p - q <= morphRadius}

\* cv::dilate and cv::erode: the border takes no part
RECURSIVE Dilate(_, _)
Dilate(row, iterations) ==
    IF iterations = 0 THEN row
    ELSE Dilate([p \in DOMAIN row |-> MaxOf({row[q] : q \in Window(row, p)})],
                iterations - 1)

RECURSIVE Erode(_, _)
Erode(row, iterations) ==
    IF iterations = 0 THEN row
    ELSE Erode([p \in DOMAIN row |-> MinOf({row[q] : q \in Window(row, p)})],
               iterations - 1)

\* lines 122-125
DarkMaskOf(gray, low, offset) ==
    Dilate(InRange(gray, rangeMin, low + offset), 2)

\* lines 135-137
GlintMaskOf(gray, high, offset) ==
    Erode(InRange(gray, rangeMin, high - offset), 1)

\* cv::Canny, line 163, is not computed: any edge map is possible, except that
\* an image without any gradient has no edge
EdgeMaps(gray) ==
    IF Uniform(gray) THEN {[p \in DOMAIN gray |-> 0]}
    ELSE [DOMAIN gray -> {0, 255}]

\* cv::min, pixel by pixel
PixelMin(a, b) == [p \in DOMAIN a |-> IF a[p] < b[p] THEN a[p] ELSE b[p]]

\* lines 171-173
Prune(e, dark, glint) == PixelMin(PixelMin(e, dark), glint)

\* lines 42-178 of findPupil on a row of pixels, for any edge map of Canny
FindPupilFront(eye) ==
    /\ pc = "idle"
    /\ MaskEmpty(maskImage) \/ Len(maskImage) = Len(eye)
    /\ \E in \in {ApplyMask(eye, maskImage)} :
       \E gray \in {Normalize(CvtColor(in))} :
       \E s \in {EstimateSpikes(GrayCounts(gray))} :
       \E dark \in {DarkMaskOf(gray, s.lowestSpike, m_pupilIntensityOffset)} :
       \E glint \in {GlintMaskOf(gray, s.highestSpike, m_glintIntensityOffset)} :
       \E e \in EdgeMaps(gray) :
           /\ eyeImage' = eye
           /\ imageIn' = in
           /\ imageGray' = gray
           /\ lowestSpike' = s.lowestSpike
           /\ highestSpike' = s.highestSpike
           /\ numSpikes' = s.numSpikes
           /\ m_bin_thresh' = BinThresh(s)
           /\ darkMask' = dark
           /\ glintMask' = glint
           /\ edges' = e
           /\ edgesPruned' = Prune(e, dark, glint)
    /\ images' = DebugFront(m_display, images)
    /\ pc' = "pruned"
    /\ UNCHANGED <<m_ellipseRectangle, settings, m_display, maskImage,
                   selector, result, ref>>

\* setMaskImage before the first frame: the mask is set at most once
SetMaskRow(maskIn) ==
    /\ MaskEmpty(maskImage)
    /\ SetMaskImage(maskIn)

\* one frame, whatever its pixels
FindPupilFrontStep ==
    pc = "idle" /\ \E eye \in EyeRows \cup ShortRows : FindPupilFront(eye)

MaskNext ==
    \/ \E maskIn \in MaskRows : SetMaskRow(maskIn)
    \/ FindPupilFrontStep

MaskSpec == Init /\ [][MaskNext]_vars

\* the pixels a region mask excludes
MaskedOut ==
    IF MaskEmpty(maskImage) THEN {}
    ELSE {p \in DOMAIN maskImage : maskImage[p] = 0}

\* C7, as claimed: a pixel outside the region of interest is 255 in the
\* working image, is not in the dark mask and is not in the pruned edge map.
C7_MaskedOutNeverDark ==
    pc = "pruned" =>
        \A p \in MaskedOut :
            /\ imageGray[p] = 255
            /\ darkMask[p] = 0
            /\ edgesPruned[p] = 0

\* C7, amended: a pixel outside the region of interest is not in the pruned
\* edge map; it is 255 in the masked input and, unless the working image is
\* uniform, 255 in the working image and outside the glint mask (the dilated
\* dark mask may cover it).
C7_MaskedOutNeverPruned ==
    pc = "pruned" =>
        \A p \in MaskedOut :
            /\ edgesPruned[p] = 0
            /\ imageIn[p] = 255
            /\ ~Uniform(imageGray) => (imageGray[p] = 255 /\ glintMask[p] = 0)

\* a raw edge on an excluded pixel that the dark mask covers has been pruned,
\* while an edge inside the region of interest was kept
C7_Witness ==
    /\ pc = "pruned"
    /\ \E p \in MaskedOut :
           edges[p] = 255 /\ darkMask[p] = 255 /\ edgesPruned[p] = 0
    /\ \E q \in Positions \ MaskedOut : edgesPruned[q] = 255

\* a mask without a white pixel, a mask without a black pixel
MaskIsEmpty(mask) == \A p \in DOMAIN mask : mask[p] = 0
MaskIsFull(mask) == \A p \in DOMAIN mask : mask[p] # 0

\* C13: when the spike scan counted fewer than 2 spikes, so that the cut-offs
\* come from lowestSpike = 0 and highestSpike = 255, neither darkMask nor
\* glintMask is empty and neither covers the whole image.
C13_FallbackMasksProper ==
    (pc = "pruned" /\ numSpikes < 2) =>
        /\ lowestSpike = 0 /\ highestSpike = 255
        /\ ~MaskIsEmpty(darkMask) /\ ~MaskIsFull(darkMask)
        /\ ~MaskIsEmpty(glintMask) /\ ~MaskIsFull(glintMask)

-----------------------------------------------------------------------------
(***************************************************************************)
(* Properties of the contour selector and of the tracker object.           *)
(***************************************************************************)
Returned == pc = "returned"
AllShort == \A i \in 1..Len(contours) : contours[i] < m_min_contour_size
SomeLong == \E i \in 1..Len(contours) : contours[i] >= m_min_contour_size

\* C1: a findPupil call returns true if and only if the contour list is
\* non-empty; for a non-empty list at least one contour is marked mergeable
\* and the success flag is set, and the flag is clear only for the empty list.
C1_SuccessIffContours ==
    Returned =>
        /\ (result = "true") <=> (contours # <<>>)
        /\ success <=> (contours # <<>>)
        /\ (contours # <<>>) => AnyFlag(contourMergeable)

\* C2: if some contour has at least m_min_contour_size points, the loop ends
\* after its first pass, the threshold of that pass is m_min_contour_size,
\* and the mergeable contours are exactly those of at least that length.
C2_FirstPassExact ==
    (Returned /\ SomeLong) =>
        /\ passes = 1
        /\ m_min_contour_size - (relaxContourMerge - RelaxStep)
               = m_min_contour_size
        /\ \A i \in 1..Len(contours) :
               contourMergeable[i] <=> (contours[i] >= m_min_contour_size)

\* a call has ended on a contour of exactly m_min_contour_size points beside
\* a shorter one
C2_Witness ==
    /\ Returned /\ passes = 1
    /\ contours = <<m_min_contour_size - 1, m_min_contour_size>>
    /\ contourMergeable = <<FALSE, TRUE>>

\* C3: a call whose contour list is non-empty and holds only contours
\* shorter than m_min_contour_size leaves the relaxation loop, and has then
\* at least one contour marked mergeable.
C3_RelaxationTerminates ==
    (pc = "loop" /\ contours # <<>> /\ AllShort)
        ~> (Returned /\ AnyFlag(contourMergeable))

\* a call on a single point has ended after the threshold went down to 0
C3_Witness ==
    /\ Returned /\ contours = <<1>> /\ AnyFlag(contourMergeable)
    /\ relaxContourMerge - RelaxStep = m_min_contour_size

\* the threshold of the last pass made, and the length of the longest contour
LastThreshold == m_min_contour_size - (relaxContourMerge - RelaxStep)
Longest == MaxOf({contours[i] : i \in 1..Len(contours)})
AtLeast(t) == [n \in Int |-> n >= t]
KeepFrom(cs, t) == SelectSeq(cs, LAMBDA n : AtLeast(t)[n])

\* C14: a call whose contour list is non-empty and holds only contours
\* shorter than m_min_contour_size makes a pass only at a threshold of 0 or
\* more, and ends the loop after at most m_min_contour_size / 2 + 1 passes at
\* the first threshold t = m_min_contour_size - 2k, k >= 1, that the longest
\* contour meets; the mergeable and merged contours are exactly those of
\* length t or more: the longest is among them and each of them is within 1
\* of the longest.
C14_RelaxedSelection ==
    /\ (pc = "loop" /\ contours # <<>> /\ AllShort /\ retryContourMerge) =>
           m_min_contour_size - relaxContourMerge >= 0
    /\ (Returned /\ contours # <<>> /\ AllShort) =>
           /\ passes >= 2
           /\ passes <= (m_min_contour_size \div 2) + 1
           /\ LastThreshold = m_min_contour_size - 2 * (passes - 1)
           /\ LastThreshold >= 0
           /\ Longest >= LastThreshold
           /\ Longest < LastThreshold + 2
           /\ \A i \in 1..Len(contours) :
                  contourMergeable[i] <=> (contours[i] >= LastThreshold)
           /\ contoursMerged = KeepFrom(contours, LastThreshold)
           /\ \E i \in 1..Len(contours) :
                  contours[i] = Longest /\ contourMergeable[i]
           /\ \A i \in 1..Len(contours) :
                  contourMergeable[i] => Longest - contours[i] <= 1

\* a call on contours of 4 and 5 points has merged both, at threshold 4
C14_Witness ==
    /\ Returned /\ contours = <<4, 5>>
    /\ contourMergeable = <<TRUE, TRUE>> /\ contoursMerged = <<4, 5>>
    /\ LastThreshold = 4 /\ passes = 39

\* C4: a step that ends a findPupil call with the result false leaves the
\* stored ellipse as it was: getEllipseRectangle and getEllipseCentroid
\* return what they returned before the call.
C4_FailureKeepsEllipse ==
    [][(pc' = "returned" /\ result' = "false") =>
           /\ getEllipseRectangle' = getEllipseRectangle
           /\ getEllipseCentroid' = getEllipseCentroid]_vars

\* a call has failed and the ellipse of an earlier successful call is stored
C4_Witness ==
    /\ Returned /\ result = "false" /\ contours = <<>>
    /\ getEllipseRectangle # DefaultRect

\* C5: every findPupil call ends by returning true or false, and whenever
\* success is set the merged point set has the 5 points cv::fitEllipse needs.
C5_NoEscapingError ==
    Returned =>
        /\ result \in {"true", "false"}
        /\ success => NumPoints(contoursMerged) >= FitEllipseMinPoints

C9_NoStateKept ==
    [][/\ m_ellipseRectangle' = m_ellipseRectangle
       /\ m_bin_thresh' = m_bin_thresh
       /\ images' = images]_vars

\* C9, amended: a findPupil call leaves the settings, the display flag and
\* the mask unchanged; it sets m_bin_thresh to the call's lowestSpike, stores
\* the fitted ellipse exactly when it returns true, and appends its debug
\* images to the list when the display is on.
C9_StateKept ==
    [][FindPupilStep =>
           /\ UNCHANGED <<settings, m_display, maskImage>>
           /\ m_bin_thresh' = lowestSpike'
           /\ m_ellipseRectangle' =
                  IF result' = "true" THEN FittedRect(contoursMerged')
                  ELSE m_ellipseRectangle
           /\ images' = IF m_display THEN images \o DebugImages
                        ELSE images]_vars

\* calls have left an ellipse, a threshold and debug images in the tracker
C9_Witness ==
    /\ Returned
    /\ m_ellipseRectangle # DefaultRect /\ m_bin_thresh # 0 /\ images # <<>>

=============================================================================
